---- MODULE Spec2Model ----
(***************************************************************************)
(* MemoryProfiler (src/prof.py): the sampler loop `run`, the asynchronous  *)
(* SIGINT handler and the curses renderer `draw_line_graph`.               *)
(*                                                                         *)
(* Memory readings and elapsed times are integers (MB, seconds).  The      *)
(* chunk boundaries of the downsampling are computed in IEEE-754 double    *)
(* arithmetic, as Python computes len/graph_width and i*chunk_size; the    *)
(* averages and the row mapping are computed exactly, as rationals.        *)
(***************************************************************************)
EXTENDS Integers, Sequences, FiniteSets

\* ---------------------------------------------------------------- bounds
\* Longest history the sampler loop collects before the process exits.
MaxHist == 5
\* Memory readings are drawn from 0..MaxMem (MB).
MaxMem == 1
\* Terminal sizes: rows in 1..MaxRows, cols in NarrowCols or 12..MaxCols.
MaxRows == 7
MaxCols == 17
\* The pid digits and the process name in the title.
IdLen == 5
\* The renderer alone, on long histories and wide terminals.
WideHist == 16
WideCols == 25

NarrowCols == {1, 9}
ColsSet == NarrowCols \cup (12..MaxCols)
RowsSet == 1..MaxRows
Intervals == {1, 900}

\* ------------------------------------------------------------- arithmetic
Max2(a, b) == IF a >= b THEN a ELSE b
Min2(a, b) == IF a <= b THEN a ELSE b

RECURSIVE SeqSum(_)
SeqSum(s) == IF s = <<>> THEN 0 ELSE Head(s) + SeqSum(Tail(s))

RECURSIVE SeqMax(_)
SeqMax(s) == IF Len(s) = 1 THEN s[1] ELSE Max2(Head(s), SeqMax(Tail(s)))

RECURSIVE SeqMin(_)
SeqMin(s) == IF Len(s) = 1 THEN s[1] ELSE Min2(Head(s), SeqMin(Tail(s)))

\* Python's s[a:b] for 0 <= a, 0 <= b (0-based, end exclusive, clipped).
Slice(s, a, b) == SubSeq(s, a + 1, Min2(b, Len(s)))

\* Python's int() of the rational num/den, den > 0: truncation toward zero.
TruncDiv(num, den) == IF num >= 0 THEN num \div den ELSE -((-num) \div den)

\* Round num/den (num >= 0, den > 0) to the nearest integer, ties to even.
RoundHalfEven(num, den) ==
  LET q == num \div den
      r == num % den
  IN  IF 2 * r > den THEN q + 1
      ELSE IF 2 * r < den THEN q
      ELSE IF q % 2 = 0 THEN q ELSE q + 1

RECURSIVE BitLen(_)
BitLen(k) == IF k = 0 THEN 0 ELSE 1 + BitLen(k \div 2)

RECURSIVE Digits(_)
Digits(k) == IF k < 10 THEN 1 ELSE 1 + Digits(k \div 10)

\* ------------------------------------------------- IEEE-754 double values
\* A non-negative double below 2^10 is ip + hi/2^26 + lo/2^52: an integer
\* part and 52 fraction bits in two 26-bit limbs.
Limb == 2^26

DblZero == [ip |-> 0, hi |-> 0, lo |-> 0]

\* Round ip + hi/2^26 + (lo + remNum/remDen)/2^52, ip >= 1, to 53
\* significant bits, to nearest, ties to even.
RoundDbl(ip, hi, lo, remNum, remDen) ==
  LET unit    == 2^(BitLen(ip) - 1)
      kept    == lo \div unit
      dropped == lo % unit
      twice   == 2 * (dropped * remDen + remNum)
      half2   == unit * remDen
      up      == IF twice > half2 THEN 1
                 ELSE IF twice < half2 THEN 0
                 ELSE kept % 2
      lo1     == (kept + up) * unit
      hi1     == hi + (lo1 \div Limb)
  IN  [ip |-> ip + (hi1 \div Limb), hi |-> hi1 % Limb, lo |-> lo1 % Limb]

\* The double n / w, for integers n >= w >= 1.
FloatDiv(n, w) ==
  LET r0 == n % w
      r1 == (r0 * Limb) % w
  IN  RoundDbl(n \div w, (r0 * Limb) \div w, (r1 * Limb) \div w,
               (r1 * Limb) % w, w)

\* The double i * c, for an integer i >= 0 and a double c >= 1.
FloatMulInt(i, c) ==
  LET t2 == i * c.lo
      t1 == i * c.hi + (t2 \div Limb)
  IN  IF i = 0 THEN DblZero
      ELSE RoundDbl(i * c.ip + (t1 \div Limb), t1 % Limb, t2 % Limb, 0, 1)

\* int() of a non-negative double.
IntOfDbl(d) == d.ip

\* ------------------------------------------------------------ the screen
\* curses addstr(y, x, s) on an H x W window raises curses.error when the
\* start cell is outside the window or when the text, wrapping at the
\* right margin, reaches the bottom-right cell; the code's own
\* `except curses.error` around the time label relies on that.
addstr_ok(H, W, y, x, len) ==
  /\ 0 <= y /\ y < H
  /\ 0 <= x /\ x < W
  /\ y * W + x + len < H * W

Op(kind, row, col, len, ch, caught) ==
  [kind |-> kind, row |-> row, col |-> col, len |-> len, ch |-> ch,
   caught |-> caught]

Raise(where) == Op("raise", 0, 0, 0, where, FALSE)

OpOk(H, W, op) ==
  /\ op.kind # "raise"
  /\ op.kind \in {"points", "refresh"}
       \/ addstr_ok(H, W, op.row, op.col, op.len)

\* An operation that ends the draw: a raise, or a failed write outside try.
OpAborts(H, W, op) == ~OpOk(H, W, op) /\ ~op.caught

RECURSIVE Flatten(_)
Flatten(ss) == IF ss = <<>> THEN <<>> ELSE Head(ss) \o Flatten(Tail(ss))

\* --------------------------------------------------------- format_duration
\* The label of num/den seconds: tenths of the unit, rounded as "%.1f".
format_duration(num, den) ==
  IF num < 60 * den
    THEN [tenths |-> RoundHalfEven(10 * num, den), unit |-> "s"]
  ELSE IF num < 3600 * den
    THEN [tenths |-> RoundHalfEven(10 * num, 60 * den), unit |-> "m"]
  ELSE [tenths |-> RoundHalfEven(10 * num, 3600 * den), unit |-> "h"]

LabelLen(label) == Digits(label.tenths \div 10) + 3

\* ------------------------------------------------------- draw_line_graph
graph_height(H) == H - 4
graph_width(W) == W - 12

\* "Memory Usage for PID {pid} ({name})"
TitleLen == 24 + IdLen

TitleOps(H, W) == <<Op("title", 0, 0, Min2(TitleLen, W - 1), "", FALSE)>>

mem_range(mh) ==
  IF SeqMax(mh) - SeqMin(mh) = 0 THEN 1 ELSE SeqMax(mh) - SeqMin(mh)

\* Lines 59-64: with graph_height = 1 the first label divides by zero.
YAxisOps(H, W) ==
  IF graph_height(H) = 1 THEN <<Raise("yaxis")>>
  ELSE [j \in 1..(2 * Max2(graph_height(H), 0)) |->
          IF j % 2 = 1
            THEN Op("ylabel", ((j - 1) \div 2) + 2, 0, 8, "", FALSE)
            ELSE Op("hgrid", ((j - 1) \div 2) + 2, 9,
                    Max2(graph_width(W), 0), "MIDDLE DOT", FALSE)]

MarkerPos(x, W) == (x * graph_width(W)) \div 4

MarkerDrawn(x, W) == MarkerPos(x, W) < graph_width(W)

VGridOps(x, H, W) ==
  IF x > 0
    THEN [y \in 1..Max2(graph_height(H), 0) |->
            Op("vgrid", y + 1, MarkerPos(x, W) + 9, 1, "MIDDLE DOT", FALSE)]
    ELSE <<>>

TimeLabel(x, th) ==
  format_duration(4 * th[1] + (th[Len(th)] - th[1]) * x, 4)

MarkerOps(x, H, W, th) ==
  IF MarkerDrawn(x, W)
    THEN VGridOps(x, H, W) \o
         <<Op("tlabel", H - 1, MarkerPos(x, W) + 9,
              LabelLen(TimeLabel(x, th)), "", TRUE)>>
    ELSE <<>>

TimeAxisOps(H, W, th) ==
  Flatten([k \in 1..5 |-> MarkerOps(k - 1, H, W, th)])

\* A variant of the test of line 84 that compresses one sample too late.
UseChunksLate(n, gw) == n > gw + 1

\* Lines 83-95.
UseChunks(n, gw) == n > gw

start_idx(i, n, gw) == IntOfDbl(FloatMulInt(i, FloatDiv(n, gw)))
end_idx(i, n, gw) == IntOfDbl(FloatMulInt(i + 1, FloatDiv(n, gw)))

RECURSIVE ChunkList(_, _, _)
\* Lines 90-92: the chunk history[s:e], kept when it is not empty.
ChunkAt(s, e, n) == IF s < Min2(e, n) THEN <<<<s, e>>>> ELSE <<>>

ChunkList(i, n, gw) ==
  IF i >= gw THEN <<>>
  ELSE ChunkAt(start_idx(i, n, gw), end_idx(i, n, gw), n)
         \o ChunkList(i + 1, n, gw)

Chunks(mh, gw) ==
  IF UseChunks(Len(mh), gw) THEN ChunkList(0, Len(mh), gw) ELSE <<>>

\* A plot point is the rational <<sum, count>>: sum(chunk) / len(chunk).
Mean(chunk) == <<SeqSum(chunk), Len(chunk)>>

Means(mh, cs) == [k \in 1..Len(cs) |-> Mean(Slice(mh, cs[k][1], cs[k][2]))]

Points(mh, gw) ==
  IF UseChunks(Len(mh), gw)
    THEN Means(mh, Chunks(mh, gw))
    ELSE [k \in 1..Len(mh) |-> <<mh[k], 1>>]

\* A variant of line 101 that scales by graph_height, not graph_height - 1.
y_pos_full_height(pt, max_mem, range, H) ==
  TruncDiv(2 * range * pt[2]
             + (max_mem * pt[2] - pt[1]) * graph_height(H),
           range * pt[2])

\* Line 101: int(2 + (max_mem - mem) * (graph_height - 1) / mem_range).
y_pos(pt, max_mem, range, H) ==
  TruncDiv(2 * range * pt[2]
             + (max_mem * pt[2] - pt[1]) * (graph_height(H) - 1),
           range * pt[2])

Glyph(row, col, ch) == Op("glyph", row, col, 1, ch, FALSE)

\* Lines 105-116.
SegmentOps(prev_y, y, col) ==
  IF prev_y = y THEN <<Glyph(y, col, "HORIZONTAL")>>
  ELSE [k \in 1..(Max2(prev_y, y) - Min2(prev_y, y) + 1) |->
          IF k = 1
            THEN Glyph(Min2(prev_y, y), col,
                       IF prev_y < y THEN "ARC DOWN LEFT" ELSE "ARC DOWN RIGHT")
          ELSE IF k = Max2(prev_y, y) - Min2(prev_y, y) + 1
            THEN Glyph(Max2(prev_y, y), col,
                       IF prev_y < y THEN "ARC UP RIGHT" ELSE "ARC UP LEFT")
          ELSE Glyph(Min2(prev_y, y) + k - 1, col, "VERTICAL")]

RowVisible(y, H) == 2 <= y /\ y < H

\* Lines 98-117; prev is <<>> for None, <<y>> otherwise; x counts from 0.
RECURSIVE LineOps(_, _, _, _, _, _)
LineOps(ys, x, prev, gw, H, W) ==
  IF x >= Len(ys) THEN <<>>
  ELSE IF x < gw /\ RowVisible(ys[x + 1], H)
    THEN (IF prev # <<>> THEN SegmentOps(prev[1], ys[x + 1], x + 9)
                         ELSE <<>>)
         \o LineOps(ys, x + 1, <<ys[x + 1]>>, gw, H, W)
  ELSE LineOps(ys, x + 1, prev, gw, H, W)

\* The row of every plot point.
RowsOf(pts, max_mem, range, H) ==
  [k \in 1..Len(pts) |-> y_pos(pts[k], max_mem, range, H)]

Rows(pts, mh, H) == RowsOf(pts, SeqMax(mh), mem_range(mh), H)

\* Line 86 divides by graph_width.
PlotOps(mh, H, W) ==
  IF UseChunks(Len(mh), graph_width(W)) /\ graph_width(W) = 0
    THEN <<Raise("points")>>
    ELSE <<Op("points", 0, 0, 0, "", FALSE)>>
         \o LineOps(Rows(Points(mh, graph_width(W)), mh, H), 0, <<>>,
                    graph_width(W), H, W)

PlotGuard(mh) == Len(mh) > 1

GraphOps(mh, th, H, W) ==
  IF PlotGuard(mh)
    THEN YAxisOps(H, W) \o TimeAxisOps(H, W, th) \o PlotOps(mh, H, W)
    ELSE <<>>

\* "Current: {mem:.1f}MB  Duration: {duration}"
StatusLen(mh, th) ==
  23 + Digits(mh[Len(mh)]) + 2 + LabelLen(format_duration(th[Len(th)], 1))

StatusOps(mh, th, H) ==
  IF mh # <<>>
    THEN <<Op("status", H - 2, 0, StatusLen(mh, th), "", FALSE)>>
    ELSE <<>>

DrawOps(mh, th, H, W) ==
  TitleOps(H, W) \o GraphOps(mh, th, H, W) \o StatusOps(mh, th, H)
    \o <<Op("refresh", 0, 0, 0, "", FALSE)>>

\* The index of the first operation from k on that ends the draw,
\* Len + 1 when none does.
RECURSIVE AbortAt(_, _, _, _)
AbortAt(ops, k, H, W) ==
  IF k > Len(ops) \/ OpAborts(H, W, ops[k]) THEN k
  ELSE AbortAt(ops, k + 1, H, W)

\* What a draw whose steps are ops, ended at index stop, leaves behind.
Outcome(ops, stop, mh, H, W) ==
  [performed |-> {ops[k] : k \in {j \in 1..(stop - 1) : OpOk(H, W, ops[j])}},
   skipped |-> {ops[k] : k \in {j \in 1..(stop - 1) : ~OpOk(H, W, ops[j])}},
   error |-> IF stop > Len(ops) THEN "none"
             ELSE IF ops[stop].kind = "raise" THEN "ZeroDivisionError"
             ELSE "curses.error",
   error_at |-> IF stop > Len(ops) THEN "none"
                ELSE IF ops[stop].kind = "raise" THEN ops[stop].ch
                ELSE ops[stop].kind,
   points |-> IF \E k \in 1..(stop - 1) : ops[k].kind = "points"
                THEN Points(mh, graph_width(W)) ELSE <<>>,
   chunks |-> IF \E k \in 1..(stop - 1) : ops[k].kind = "points"
                THEN Chunks(mh, graph_width(W)) ELSE <<>>]

Execute(ops, mh, H, W) == Outcome(ops, AbortAt(ops, 1, H, W), mh, H, W)

\* What one call of draw_line_graph does on an H x W terminal.
Render(mh, th, H, W) == Execute(DrawOps(mh, th, H, W), mh, H, W)

\* ------------------------------------------------------------------ state
VARIABLES
  running,            \* self.running
  memory_history,     \* self.memory_history
  time_history,       \* self.time_history
  update_interval,    \* self.update_interval
  pc,                 \* where run is
  current_memory,     \* run's local
  current_time,       \* run's local
  clock,              \* time.time() - start_time
  message,            \* what run printed on its way out
  calls,              \* invocations of get_memory_usage
  draws,              \* invocations of draw_line_graph
  late_appends,       \* samples appended after the interrupt
  \* The draw of the current iteration (blank until it has run):
  height, width,      \* stdscr.getmaxyx()
  performed,          \* the steps it carried out
  skipped,            \* the writes it attempted and gave up on
  draw_error,         \* the exception that ended it
  error_at,           \* the step that raised it
  points, chunks      \* the plot points and their chunk bounds

loop_vars == <<running, memory_history, time_history, update_interval, pc,
               current_memory, current_time, clock, message, calls, draws,
               late_appends>>
frame_vars == <<height, width, performed, skipped, draw_error, error_at,
                points, chunks>>
vars == <<loop_vars, frame_vars>>

MemValues == 0..MaxMem

BlankFrame ==
  /\ height = 0 /\ width = 0
  /\ performed = {} /\ skipped = {}
  /\ draw_error = "none" /\ error_at = "none"
  /\ points = <<>> /\ chunks = <<>>

ClearFrame ==
  /\ height' = 0 /\ width' = 0
  /\ performed' = {} /\ skipped' = {}
  /\ draw_error' = "none" /\ error_at' = "none"
  /\ points' = <<>> /\ chunks' = <<>>

\* __init__ and the set-up of run, lines 12-20 and 129-132.
Init ==
  /\ running = TRUE
  /\ memory_history = <<>>
  /\ time_history = <<>>
  /\ update_interval \in Intervals
  /\ pc = "while"
  /\ current_memory = 0 /\ current_time = 0
  /\ clock = 0
  /\ message = "none"
  /\ calls = 0 /\ draws = 0 /\ late_appends = 0
  /\ BlankFrame

\* handle_interrupt, lines 22-23: delivered at any point of the loop.
Interrupted == FALSE

handle_interrupt ==
  /\ running
  /\ pc # "done"
  /\ running' = Interrupted
  /\ UNCHANGED <<memory_history, time_history, update_interval, pc,
                 current_memory, current_time, clock, message, calls, draws,
                 late_appends, frame_vars>>

\* A variant of line 134 that never reads the flag.
WhileTrue(flag) == "sample"

\* Line 134: the flag is read here and nowhere else; a new iteration
\* starts with its draw still to come.
WhileTarget(flag) == IF flag THEN "sample" ELSE "done"

While ==
  /\ pc = "while"
  /\ pc' = WhileTarget(running)
  /\ IF running THEN ClearFrame ELSE UNCHANGED frame_vars
  /\ UNCHANGED <<running, memory_history, time_history, update_interval,
                 current_memory, current_time, clock, message, calls, draws,
                 late_appends>>

\* Lines 136-137, the sampler returning a reading.
SampleOk ==
  /\ pc = "sample"
  /\ Len(memory_history) < MaxHist
  /\ \E v \in MemValues : current_memory' = v
  /\ current_time' = clock
  /\ calls' = calls + 1
  /\ pc' = "append_mem"
  /\ UNCHANGED <<running, memory_history, time_history, update_interval,
                 clock, message, draws, late_appends, frame_vars>>

\* A variant of the handlers that goes round the loop again.
ExceptContinue == "while"

\* Lines 146-151: both handlers print and break.
ExceptTarget == "done"

\* What they print when get_memory_usage raised.
SamplerFailures == {"Process no longer exists.", "Error: AccessDenied"}

SampleFails ==
  /\ pc = "sample"
  /\ message' \in SamplerFailures
  /\ calls' = calls + 1
  /\ pc' = ExceptTarget
  /\ UNCHANGED <<running, memory_history, time_history, update_interval,
                 current_memory, current_time, clock, draws, late_appends,
                 frame_vars>>

\* A variant of list.append that keeps a window of the last 2 entries.
append_window(list, x) ==
  IF Len(list) >= 2 THEN Append(Tail(list), x) ELSE Append(list, x)

\* list.append
append(list, x) == Append(list, x)

\* Line 139.
AppendMemory ==
  /\ pc = "append_mem"
  /\ memory_history' = append(memory_history, current_memory)
  /\ late_appends' = late_appends + (IF running THEN 0 ELSE 1)
  /\ pc' = "append_time"
  /\ UNCHANGED <<running, time_history, update_interval, current_memory,
                 current_time, clock, message, calls, draws, frame_vars>>

\* Line 140.
AppendTime ==
  /\ pc = "append_time"
  /\ time_history' = append(time_history, current_time)
  /\ pc' = "draw"
  /\ UNCHANGED <<running, memory_history, update_interval, current_memory,
                 current_time, clock, message, calls, draws, late_appends>>
  /\ UNCHANGED frame_vars

\* Line 142 with the whole of draw_line_graph, lines 38-125, on an H x W
\* terminal; an exception leaves through run's `except Exception`.
DrawAt(H, W) ==
  /\ pc = "draw"
  /\ height' = H /\ width' = W
  /\ draws' = draws + 1
  /\ \E r \in {Render(memory_history, time_history, H, W)} :
         /\ performed' = r.performed
         /\ skipped' = r.skipped
         /\ draw_error' = r.error
         /\ error_at' = r.error_at
         /\ points' = r.points
         /\ chunks' = r.chunks
         /\ pc' = IF r.error = "none" THEN "sleep" ELSE ExceptTarget
         /\ message' = IF r.error = "none" THEN message
                        ELSE IF r.error = "ZeroDivisionError"
                          THEN "Error: division by zero"
                        ELSE "Error: curses.error"
  /\ UNCHANGED <<running, memory_history, time_history, update_interval,
                 current_memory, current_time, clock, calls, late_appends>>

Draw == \E H \in RowsSet, W \in ColsSet : DrawAt(H, W)

\* Line 144.
Sleep ==
  /\ pc = "sleep"
  /\ clock' = clock + update_interval
  /\ pc' = "while"
  /\ UNCHANGED <<running, memory_history, time_history, update_interval,
                 current_memory, current_time, message, calls, draws,
                 late_appends, frame_vars>>

Step ==
  \/ While
  \/ SampleOk
  \/ SampleFails
  \/ AppendMemory
  \/ AppendTime
  \/ Draw
  \/ Sleep

Next == Step \/ handle_interrupt

Spec == Init /\ [][Next]_vars

\* The interpreter keeps running the loop: the sampler call, the appends,
\* the draw and the sleep all return.  A step of run is possible exactly
\* when pc # "done" and every one moves pc, so this is weak fairness of
\* Step, stated on pc.
Locations ==
  {"while", "sample", "append_mem", "append_time", "draw", "sleep", "done"}

Advance == pc # "done" /\ pc' \in Locations \ {pc}

FairSpec == Spec /\ WF_pc(Advance)

\* --------------------------------------------- the renderer on its own
\* draw_line_graph called with a long history, as run calls it after the
\* two appends of an iteration, on terminals up to WideCols columns.
WideShapes(n) ==
  { [i \in 1..n |-> MaxMem],
    [i \in 1..n |-> i % (MaxMem + 1)],
    [i \in 1..n |-> IF i = n THEN MaxMem ELSE 0] }

InitWide ==
  /\ running = TRUE
  /\ update_interval \in Intervals
  /\ \E n \in 2..WideHist :
       /\ memory_history \in WideShapes(n)
       /\ time_history = [i \in 1..n |-> (i - 1) * update_interval]
       /\ calls = n /\ draws = n - 1
  /\ pc = "draw"
  /\ current_memory = memory_history[Len(memory_history)]
  /\ current_time = time_history[Len(time_history)]
  /\ clock = current_time
  /\ message = "none"
  /\ late_appends = 0
  /\ BlankFrame

DrawWide == \E H \in RowsSet, W \in 12..WideCols : DrawAt(H, W)

NextWide == DrawWide

SpecWide == InitWide /\ [][NextWide]_vars

\* ------------------------------------------------------------ the claims
Rendered == height > 0
Did(kind) == {op \in performed : op.kind = kind}
Tried(kind) == {op \in performed \cup skipped : op.kind = kind}
Refreshed == Did("refresh") # {}
plot_height == graph_height(height)
plot_width == graph_width(width)
Samples == Len(memory_history)
PlotRows == 2..(2 + plot_height - 1)
IsPrefix(a, b) == Len(a) <= Len(b) /\ SubSeq(b, 1, Len(a)) = a
Flat == \A i \in 1..Samples : memory_history[i] = memory_history[1]
SamplerFailed == message \in SamplerFailures

\* C1: with at least 2 samples and a plot width of at least 1, the plot
\* points of a draw number at most the plot width.
C1_PointsWithinWidth ==
  (Rendered /\ Samples >= 2 /\ plot_width >= 1) => Len(points) <= plot_width

C1_Witness ==
  /\ Rendered /\ Samples > plot_width /\ plot_width >= 3
  /\ Len(points) = plot_width

\* C2: a history of at least 2 identical samples never divides by zero in
\* the y-axis or the row mapping, and every line glyph drawn is the flat
\* glyph, all on one row.
C2_FlatLine ==
  (Rendered /\ Samples >= 2 /\ Flat) =>
    /\ ~(draw_error = "ZeroDivisionError" /\ error_at = "yaxis")
    /\ \A g \in Did("glyph") : g.ch = "HORIZONTAL"
    /\ \A g, h \in Did("glyph") : g.row = h.row

\* C3: a draw with plot_height < 1 or fewer than 2 samples writes no y-axis
\* label, no gridline and no line glyph, and still writes the title.  (That
\* its status write and refresh are reached is the subject of C4.)
C3_NoPlotWhenTooSmall ==
  (Rendered /\ (plot_height < 1 \/ Samples < 2)) =>
    /\ Did("ylabel") = {} /\ Did("hgrid") = {} /\ Did("vgrid") = {}
    /\ Did("glyph") = {}
    /\ Did("title") # {}

\* C4: no write outside the grid ends the draw or the loop: every draw
\* reaches refresh unless something other than a write stopped it.
C4_WritesNeverAbort ==
  /\ Rendered => draw_error # "curses.error"
  /\ message # "Error: curses.error"

\* C5: with at least 2 samples, plot_height >= 1 and plot_width >= 1, every
\* line glyph is on a plot row, and the value that row stands for lies
\* between the smallest and the largest sample.
C5_GlyphsInPlotRows ==
  (Rendered /\ Samples >= 2 /\ plot_height >= 1 /\ plot_width >= 1) =>
    \A g \in Did("glyph") :
      /\ g.row \in PlotRows
      /\ SeqMin(memory_history) * (plot_height - 1)
           <= SeqMax(memory_history) * (plot_height - 1)
                - (g.row - 2) * mem_range(memory_history)
      /\ (g.row - 2) * mem_range(memory_history) >= 0

C5_Witness ==
  /\ Rendered /\ Samples >= 2 /\ plot_height >= 3 /\ plot_width >= 1
  /\ \E g, h \in Did("glyph") : g.row = 2 /\ h.row = 2 + plot_height - 1

\* C6: with n samples and plot width w >= 1, n > w gives exactly w points,
\* point i the mean of the samples [floor(i*n/w), floor((i+1)*n/w)), the
\* chunks covering the history; n <= w gives the samples themselves.
C6_Downsampling ==
  (Rendered /\ plot_width >= 1 /\ Did("points") # {}) =>
    IF Samples > plot_width
      THEN /\ Len(points) = plot_width
           /\ Len(chunks) = plot_width
           /\ \A i \in 0..(plot_width - 1) :
                /\ chunks[i + 1] = << (i * Samples) \div plot_width,
                                      ((i + 1) * Samples) \div plot_width >>
                /\ chunks[i + 1][1] < chunks[i + 1][2]
                /\ points[i + 1] =
                     Mean(SubSeq(memory_history, chunks[i + 1][1] + 1,
                                 chunks[i + 1][2]))
           /\ chunks[1][1] = 0
           /\ chunks[plot_width][2] = Samples
      ELSE points = [k \in 1..Samples |-> <<memory_history[k], 1>>]

\* C7: every step leaves the two histories as they were or appends one
\* entry to one of them; a failed sampler call and a draw change neither;
\* both hold one entry per successful sampler call when the draw is called.
C7_AppendOnly ==
  /\ [](pc \in {"draw", "sleep", "while"} =>
          /\ Len(memory_history) = Len(time_history)
          /\ Len(memory_history) = calls)
  /\ [][/\ IsPrefix(memory_history, memory_history')
        /\ IsPrefix(time_history, time_history')
        /\ Len(memory_history') <= Len(memory_history) + 1
        /\ Len(time_history') <= Len(time_history) + 1
        /\ (pc = "append_mem" /\ pc' # pc) =>
             memory_history' = Append(memory_history, current_memory)
        /\ (pc = "append_time" /\ pc' # pc) =>
             time_history' = Append(time_history, current_time)
        /\ pc \in {"sample", "draw", "sleep", "while", "done"} =>
             UNCHANGED <<memory_history, time_history>>]_vars

C7_Witness ==
  /\ pc = "sleep" /\ Samples = 3 /\ Len(time_history) = 3
  /\ points = [k \in 1..3 |-> <<memory_history[k], 1>>]

\* C8: once the sampler has failed the loop is over: no further sampler
\* call, no append, no draw.
C8_NoRetry ==
  /\ [](SamplerFailed => pc = "done")
  /\ [][SamplerFailed =>
          /\ pc' = "done"
          /\ UNCHANGED <<memory_history, time_history, calls, draws>>]_vars
  /\ [][(pc = "sample" /\ calls' # calls /\ pc' # "append_mem") =>
          /\ SamplerFailed'
          /\ UNCHANGED <<memory_history, time_history, draws>>]_vars

C8_Witness == SamplerFailed /\ pc = "done" /\ Samples >= 2 /\ draws >= 2

\* C9: the handler only clears the flag; an iteration under way runs its
\* course; at most one sample is appended after the interrupt; the loop
\* starts no iteration once it has read the cleared flag, and ends.
C9_CooperativeCancel ==
  /\ [][running' # running =>
          /\ running /\ ~running'
          /\ UNCHANGED <<memory_history, time_history, update_interval, pc,
                         current_memory, current_time, clock, message,
                         calls, draws, late_appends, frame_vars>>]_vars
  /\ [][(~running /\ pc' # pc) =>
          /\ pc = "sample" => (pc' = "append_mem" \/ SamplerFailed')
          /\ pc = "append_mem" => pc' = "append_time"
          /\ pc = "append_time" => pc' = "draw"
          /\ pc = "draw" =>
               /\ draws' = draws + 1
               /\ draw_error' = "none" => (pc' = "sleep" /\ Refreshed')
               /\ draw_error' # "none" => message' # message
          /\ pc = "sleep" => pc' = "while"
          /\ pc = "while" => pc' = "done"
          /\ pc # "done"]_vars
  /\ [](late_appends <= 1)
  /\ (~running ~> pc = "done")

C9_Witness ==
  /\ ~running /\ pc = "done" /\ late_appends = 1 /\ Refreshed
  /\ message = "none"

\* C10: with at least 2 samples, plot_height >= 1 and plot width w >= 4,
\* the markers 1..4 at columns w/4, w/2, 3w/4 and w each get a gridline
\* over every plot row and a label attempt on the bottom row; marker 0 gets
\* a label attempt and no gridline.  Stated of the draws that get past the
\* y axis.
C10_FiveMarkers ==
  (Rendered /\ Samples >= 2 /\ plot_height >= 1 /\ plot_width >= 4
     /\ error_at \notin {"yaxis", "ylabel", "hgrid"}) =>
    /\ \A x \in 1..4 :
         /\ \A row \in PlotRows :
              \E g \in Did("vgrid") :
                g.row = row /\ g.col = (x * plot_width) \div 4 + 9
         /\ \E t \in Tried("tlabel") :
              t.row = height - 1 /\ t.col = (x * plot_width) \div 4 + 9
    /\ \E t \in Tried("tlabel") : t.row = height - 1 /\ t.col = 9
    /\ \A g \in Did("vgrid") : g.col # 9
====
